---- MODULE Spec2Model ----
(***************************************************************************)
(* The whisper persister of go-carbon (persister/whisper.go): the inbound  *)
(* points.Channel, the shuffler, the pool of workers, store, and the       *)
(* statWorker / doCheckpoint counters, as one state machine.               *)
(***************************************************************************)
EXTENDS Integers, Sequences, FiniteSets, TLC

\* ------------------------------------------------------------------ bounds

\* Batches the upstream producer submits in one run.
MaxBatches == 5
\* Longest batch (len(values.Data)).
MaxLen == 2
\* Largest pool size passed to SetWorkers.
MaxWorkers == 2
\* Ticks of the statWorker ticker in one run.
MaxTicks == 2
\* Swaps of the inbound channel's underlying queue in one run.
MaxSwaps == 1
\* Width in bits of the model's counters (uint32 in the code, scaled down).
CounterBits == 4
\* Capacity of a worker's private channel (32 in the code, scaled down) and
\* of the inbound channel handed to NewWhisper.
QueueSize == 2
\* Failures of the file system or the whisper library in one run.
MaxFaults == 1
\* Largest rate passed to SetMaxUpdatesPerSecond.
MaxRate == 2
\* Seconds the throttle's clock counts; later seconds are not told apart.
MaxSeconds == 3

Modulus == 2 ^ CounterBits

\* ------------------------------------------------------------- metric names

UserMetrics == {"a", "d"}
StatNames == <<"updateOperations", "commitedPoints", "pointsPerUpdate", "created">>
StatMetrics == {"persister.updateOperations", "persister.commitedPoints",
                "persister.pointsPerUpdate", "persister.created"}
Metrics == UserMetrics \cup StatMetrics

\* fmt.Sprintf("%spersister.%s", p.graphPrefix, metric) with the empty prefix.
StatMetric(name) == CASE name = "updateOperations" -> "persister.updateOperations"
                      [] name = "commitedPoints" -> "persister.commitedPoints"
                      [] name = "pointsPerUpdate" -> "persister.pointsPerUpdate"
                      [] name = "created" -> "persister.created"

\* []byte(values.Metric)
MetricBytes(m) ==
    CASE m = "a" -> <<97>>
      [] m = "d" -> <<100>>
      [] m = "persister.updateOperations" ->
           <<112, 101, 114, 115, 105, 115, 116, 101, 114, 46, 117, 112, 100, 97,
             116, 101, 79, 112, 101, 114, 97, 116, 105, 111, 110, 115>>
      [] m = "persister.commitedPoints" ->
           <<112, 101, 114, 115, 105, 115, 116, 101, 114, 46, 99, 111, 109, 109,
             105, 116, 101, 100, 80, 111, 105, 110, 116, 115>>
      [] m = "persister.pointsPerUpdate" ->
           <<112, 101, 114, 115, 105, 115, 116, 101, 114, 46, 112, 111, 105, 110,
             116, 115, 80, 101, 114, 85, 112, 100, 97, 116, 101>>
      [] m = "persister.created" ->
           <<112, 101, 114, 115, 105, 115, 116, 101, 114, 46, 99, 114, 101, 97,
             116, 101, 100>>

\* ------------------------------------------------------------------- crc32
\* crc32.ChecksumIEEE over 32-bit words held as <<high half, low half>>, each
\* half in 0..65535 (a uint32 does not fit the checker's integers).

Half == 2 ^ 16

RECURSIVE XorHalf(_, _)
XorHalf(a, b) ==
    IF a = 0 THEN b
    ELSE IF b = 0 THEN a
    ELSE ((a + b) % 2) + 2 * XorHalf(a \div 2, b \div 2)

Xor(x, y) == <<XorHalf(x[1], y[1]), XorHalf(x[2], y[2])>>
ShiftRight1(x) == <<x[1] \div 2, (x[2] \div 2) + (x[1] % 2) * (Half \div 2)>>
AllOnes == <<Half - 1, Half - 1>>
\* The reflected IEEE polynomial 0xedb88320.
IEEEPoly == <<60856, 33568>>
ByteWord(b) == <<0, b>>

\* k rounds of: if crc&1 == 1 then (crc >> 1) ^ poly else crc >> 1.
RECURSIVE CrcShift(_, _)
CrcShift(crc, k) ==
    IF k = 0 THEN crc
    ELSE IF crc[2] % 2 = 1 THEN CrcShift(Xor(ShiftRight1(crc), IEEEPoly), k - 1)
    ELSE CrcShift(ShiftRight1(crc), k - 1)

\* crc32.IEEETable[b]
IEEETable(b) == CrcShift(ByteWord(b), 8)
ShiftRight8(x) == <<x[1] \div 256, (x[2] \div 256) + (x[1] % 256) * 256>>
\* crc = IEEETable[byte(crc)^b] ^ (crc >> 8)
CrcByte(crc, b) == Xor(IEEETable(XorHalf(crc[2] % 256, b)), ShiftRight8(crc))

\* The register after bytes i.. are folded into crc.
RECURSIVE CrcUpdate(_, _, _)
CrcUpdate(crc, bytes, i) ==
    IF i > Len(bytes) THEN crc
    ELSE LET next == CrcByte(crc, bytes[i])
         IN  IF next \in Nat \X Nat THEN CrcUpdate(next, bytes, i + 1) ELSE next

ChecksumIEEE(bytes) == Xor(CrcUpdate(AllOnes, bytes, 1), AllOnes)

\* word % n, for n small enough that (n - 1) * n fits an integer.
WordMod(x, n) == ((x[1] % n) * (Half % n) + x[2]) % n

\* The checksum of every metric name of the model, computed once.
Checksums == {<<m, ChecksumIEEE(MetricBytes(m))>> : m \in Metrics}
ChecksumOf(metric) == (CHOOSE p \in Checksums : p[1] = metric)[2]

\* crc32.ChecksumIEEE([]byte(values.Metric)) % workers
ShardIndex(metric, workers) == WordMod(ChecksumOf(metric), workers)

\* ------------------------------------------------------------------- state

VARIABLES
    \* Whisper fields (whisper.go:37-49)
    workersCount,         \* p.workersCount
    maxUpdatesPerSecond,  \* p.maxUpdatesPerSecond
    schemas,              \* metrics p.schemas.match resolves
    aggregation,          \* metrics p.aggregation.match resolves
    updateOperations,     \* p.updateOperations
    commitedPoints,       \* p.commitedPoints
    created,              \* p.created
    exitClosed,           \* p.exit has been closed
    started,              \* Start has run
    \* p.in, a points.Channel: its underlying queues by version, and the
    \* version that is current
    inQ, inCur,
    \* the channel ThrottledOut returns: its queue, the version of p.in its
    \* feeder reads, and what is left of this second's budget
    thrQ, thrIn, thrTokens,
    \* the seconds the throttle's clock has counted (up to MaxSeconds) and the
    \* batches it has released
    thrSeconds, thrReleased,
    \* shuffler goroutine: position, the queue it reads, the batch and the
    \* index it holds between the receive and the send
    shPc, shIn, shVal, shIdx,
    \* worker goroutines: position, the queue each reads, the batch in store,
    \* the private channels, the handle store holds, and whether UpdateMany
    \* panicked in the running store call
    wPc, wIn, wVal, wq, handle, panicked,
    \* statWorker goroutine and the doCheckpoint goroutines it launched:
    \* position and the locals updateOperations, commitedPoints, created
    stPc, cpPc, cpOps, cpPts, cpCreated,
    \* the file system under rootPath: the .wsp files and the directories
    files, dirs,
    \* what is left of the run's inputs: batches to submit, ticks, swaps
    left,
    \* history, per metric: the ids sent on the inbound channel, the ids store
    \* was called with, the ids of the calls that obtained a handle and the ids
    \* passed to UpdateMany, in order; the MkdirAll and Create calls; the
    \* increments store applied to each counter; the points of the batches
    \* whose call obtained a handle
    sent, calls, handles, updates, mkdirs, creates, incOps, incPts, incCreated,
    handledPts,
    \* history: the calls that failed, as <<metric, call>>; who has taken the
    \* exit case of its select; the batches in flight at a swap
    faults, sawExit, atSwap

configVars == <<workersCount, maxUpdatesPerSecond, schemas, aggregation>>
counterVars == <<updateOperations, commitedPoints, created>>
inVars == <<inQ, inCur>>
thrVars == <<thrQ, thrIn, thrTokens, thrSeconds, thrReleased>>
shVars == <<shPc, shIn, shVal, shIdx>>
wVars == <<wPc, wIn, wVal, handle, panicked>>
cpVars == <<cpPc, cpOps, cpPts, cpCreated>>
fsVars == <<files, dirs>>
histVars == <<calls, handles, updates, mkdirs, creates, incOps, incPts, incCreated,
             handledPts, faults>>

vars == <<configVars, counterVars, exitClosed, started, inVars, thrVars, shVars,
          wVars, wq, stPc, cpVars, fsVars, left, sent, histVars, sawExit, atSwap>>

Workers == 0..(MaxWorkers - 1)
Checkpoints == 1..MaxTicks
Versions == 0..MaxSwaps

None == [id |-> 0, metric |-> "", n |-> 0, val |-> <<0, 1>>]

\* A batch of n points of one metric; val is the value of a synthetic point
\* as numerator and denominator.
Batch(id, metric, n, val) == [id |-> id, metric |-> metric, n |-> n, val |-> val]

\* The id of the j-th point doCheckpoint goroutine k sends.
StatId(k, j) == MaxBatches + 4 * (k - 1) + j

\* A reference to an underlying Go channel: a version of p.in, the throttled
\* channel, or a worker's private channel.
InRef(v) == [k |-> "in", i |-> v]
ThrRef == [k |-> "thr", i |-> 0]
WRef(w) == [k |-> "w", i |-> w]
NoRef == [k |-> "none", i |-> 0]

QueueOf(ref) == CASE ref.k = "in" -> inQ[ref.i]
                  [] ref.k = "thr" -> thrQ
                  [] ref.k = "w" -> wq[ref.i]
                  [] OTHER -> <<>>

\* Workers Start launches: one when workersCount <= 1, else workersCount.
Launched == IF ~started THEN {}
            ELSE IF workersCount <= 1 THEN {0}
            ELSE 0..(workersCount - 1)

\* atomic.AddUint32
AddUint32(c, delta) == (c + delta) % Modulus
\* -x of a uint32
Neg(x) == (Modulus - x) % Modulus

\* filepath.Dir of the metric's path, relative to rootPath.
DirOf(m) == IF m \in StatMetrics THEN "persister" ELSE "."

\* -------------------------------------------------------------------- Init

\* The schemas and aggregation configurations NewWhisper may be handed: every
\* metric resolved, or metric "d" left without a rule.
PolicyChoices == {Metrics, Metrics \ {"d"}}

\* What a run may still do: batches to submit, ticks of the ticker, swaps of
\* the inbound queue, failures of the file system or the whisper library.
Budget(submit, tick, swap, fault) ==
    [submit |-> submit, tick |-> tick, swap |-> swap, fault |-> fault]

\* NewWhisper(rootPath, schemas, aggregation, in): one worker, no throttling,
\* zero counters, an open exit channel; the inbound channel and the root
\* directory are empty.
NewWhisper(schemaSet, aggregationSet, budget) ==
    /\ workersCount = 1
    /\ maxUpdatesPerSecond = 0
    /\ schemas = schemaSet
    /\ aggregation = aggregationSet
    /\ updateOperations = 0 /\ commitedPoints = 0 /\ created = 0
    /\ exitClosed = FALSE /\ started = FALSE
    /\ inQ = [v \in Versions |-> <<>>] /\ inCur = 0
    /\ thrQ = <<>> /\ thrIn = NoRef /\ thrTokens = 0
    /\ thrSeconds = 0 /\ thrReleased = 0
    /\ shPc = "off" /\ shIn = NoRef /\ shVal = None /\ shIdx = 0
    /\ wPc = [w \in Workers |-> "off"]
    /\ wIn = [w \in Workers |-> NoRef]
    /\ wVal = [w \in Workers |-> None]
    /\ wq = [w \in Workers |-> <<>>]
    /\ handle = [w \in Workers |-> ""]
    /\ panicked = [w \in Workers |-> FALSE]
    /\ stPc = "off"
    /\ cpPc = [k \in Checkpoints |-> "off"]
    /\ cpOps = [k \in Checkpoints |-> 0]
    /\ cpPts = [k \in Checkpoints |-> 0]
    /\ cpCreated = [k \in Checkpoints |-> 0]
    /\ files = {} /\ dirs = {}
    /\ left = budget
    /\ sent = [m \in Metrics |-> <<>>]
    /\ calls = [m \in Metrics |-> <<>>]
    /\ handles = [m \in Metrics |-> <<>>]
    /\ updates = [m \in Metrics |-> <<>>]
    /\ mkdirs = [m \in Metrics |-> 0]
    /\ creates = [m \in Metrics |-> 0]
    /\ incOps = [m \in Metrics |-> 0]
    /\ incPts = [m \in Metrics |-> 0]
    /\ incCreated = [m \in Metrics |-> 0]
    /\ handledPts = [m \in Metrics |-> 0]
    /\ faults = {}
    /\ sawExit = {} /\ atSwap = {}

Init ==
    \E s \in PolicyChoices, a \in PolicyChoices :
        NewWhisper(s, a, Budget(MaxBatches - 2, 0, 0, MaxFaults))

\* ------------------------------------------------- configuration, lifecycle

\* SetWorkers, called before Start.
SetWorkers(count) ==
    /\ ~started
    /\ workersCount' = count
    /\ UNCHANGED <<maxUpdatesPerSecond, schemas, aggregation, counterVars,
                   exitClosed, started, inVars, thrVars, shVars, wVars, wq, stPc,
                   cpVars, fsVars, left, sent, histVars, sawExit, atSwap>>

\* SetMaxUpdatesPerSecond, called before Start.
SetMaxUpdatesPerSecond(rate) ==
    /\ ~started
    /\ maxUpdatesPerSecond' = rate
    /\ UNCHANGED <<workersCount, schemas, aggregation, counterVars,
                   exitClosed, started, inVars, thrVars, shVars, wVars, wq, stPc,
                   cpVars, fsVars, left, sent, histVars, sawExit, atSwap>>

\* inChannel.Current() of the channel the readers are handed: the throttled
\* channel when throttling is on, else p.in.
Current == IF maxUpdatesPerSecond > 0 THEN ThrRef ELSE InRef(inCur)

\* Start launching the workers of a pool on the inbound channel itself, with
\* no shuffler.
StartNoShuffler ==
    /\ ~started
    /\ started' = TRUE
    /\ stPc' = "select"
    /\ IF maxUpdatesPerSecond > 0
       THEN thrIn' = InRef(inCur) /\ thrTokens' = maxUpdatesPerSecond
       ELSE UNCHANGED <<thrIn, thrTokens>>
    /\ wPc' = [w \in Workers |->
                 IF w < workersCount \/ w = 0 THEN "select" ELSE "off"]
    /\ wIn' = [w \in Workers |->
                 IF w < workersCount \/ w = 0 THEN Current ELSE NoRef]
    /\ UNCHANGED <<configVars, counterVars, exitClosed, inVars, thrQ, thrSeconds,
                   thrReleased, shVars, wVal, handle, panicked, wq, cpVars,
                   fsVars, left, sent, histVars, sawExit, atSwap>>

\* Start handing the readers p.in itself, whatever maxUpdatesPerSecond is.
StartUnthrottled ==
    /\ ~started
    /\ started' = TRUE
    /\ stPc' = "select"
    /\ IF workersCount <= 1
       THEN /\ wPc' = [wPc EXCEPT ![0] = "select"]
            /\ wIn' = [wIn EXCEPT ![0] = InRef(inCur)]
            /\ UNCHANGED <<shPc, shIn>>
       ELSE /\ wPc' = [w \in Workers |-> IF w < workersCount THEN "select" ELSE "off"]
            /\ wIn' = [w \in Workers |-> IF w < workersCount THEN WRef(w) ELSE NoRef]
            /\ shPc' = "select"
            /\ shIn' = InRef(inCur)
    /\ UNCHANGED <<configVars, counterVars, exitClosed, inVars, thrVars, shVal,
                   shIdx, wVal, handle, panicked, wq, cpVars, fsVars, left, sent,
                   histVars, sawExit, atSwap>>

\* Start: launches statWorker, wraps p.in when maxUpdatesPerSecond > 0, and
\* launches one worker on the inbound channel, or workersCount workers on
\* private channels and the shuffler. Each goroutine's first statement (its
\* Current() call) is taken with the launch.
Start ==
    /\ ~started
    /\ started' = TRUE
    /\ stPc' = "select"
    /\ IF maxUpdatesPerSecond > 0
       THEN thrIn' = InRef(inCur) /\ thrTokens' = maxUpdatesPerSecond
       ELSE UNCHANGED <<thrIn, thrTokens>>
    /\ IF workersCount <= 1
       THEN /\ wPc' = [wPc EXCEPT ![0] = "select"]
            /\ wIn' = [wIn EXCEPT ![0] = Current]
            /\ UNCHANGED <<shPc, shIn>>
       ELSE /\ wPc' = [w \in Workers |-> IF w < workersCount THEN "select" ELSE "off"]
            /\ wIn' = [w \in Workers |-> IF w < workersCount THEN WRef(w) ELSE NoRef]
            /\ shPc' = "select"
            /\ shIn' = Current
    /\ UNCHANGED <<configVars, counterVars, exitClosed, inVars, thrQ, thrSeconds,
                   thrReleased, shVal, shIdx,
                   wVal, handle, panicked, wq, cpVars, fsVars, left, sent,
                   histVars, sawExit, atSwap>>

\* Stop: close(p.exit).
Stop ==
    /\ started /\ ~exitClosed
    /\ exitClosed' = TRUE
    /\ UNCHANGED <<configVars, counterVars, started, inVars, thrVars, shVars,
                   wVars, wq, stPc, cpVars, fsVars, left, sent, histVars,
                   sawExit, atSwap>>

\* ------------------------------------------------------ the inbound channel

\* The number of batches sent so far for the metrics of S.
RECURSIVE SentCount(_)
SentCount(S) ==
    IF S = {} THEN 0
    ELSE LET m == CHOOSE x \in S : TRUE IN Len(sent[m]) + SentCount(S \ {m})

\* The upstream producer sends a batch of n points of metric m on p.in.Chan();
\* it waits while the queue is full.
Submit(m, n) ==
    /\ left.submit > 0
    /\ Len(inQ[inCur]) < QueueSize
    /\ LET id == SentCount(UserMetrics) + 1
       IN  /\ inQ' = [inQ EXCEPT ![inCur] = Append(@, Batch(id, m, n, <<0, 1>>))]
           /\ sent' = [sent EXCEPT ![m] = Append(@, id)]
    /\ left' = [left EXCEPT !.submit = @ - 1]
    /\ UNCHANGED <<configVars, counterVars, exitClosed, started, inCur, thrVars,
                   shVars, wVars, wq, stPc, cpVars, fsVars, histVars, sawExit,
                   atSwap>>

Ids(q) == {q[i].id : i \in 1..Len(q)}

\* The inbound channel's underlying queue is replaced: the new queue becomes
\* current and holds the batches that were in flight, in order, and the old
\* version's change notification is closed.
Swap ==
    /\ left.swap > 0
    /\ inCur' = inCur + 1
    /\ inQ' = [inQ EXCEPT ![inCur + 1] = inQ[inCur], ![inCur] = <<>>]
    /\ atSwap' = atSwap \cup Ids(inQ[inCur])
    /\ left' = [left EXCEPT !.swap = @ - 1]
    /\ UNCHANGED <<configVars, counterVars, exitClosed, started, thrVars, shVars,
                   wVars, wq, stPc, cpVars, fsVars, sent, histVars, sawExit>>

\* The change notification a reader of ref holds has been closed.
Changed(ref) == ref.k = "in" /\ ref.i < inCur

\* Current() of the channel ref belongs to.
Reresolve(ref) == IF ref.k = "in" THEN InRef(inCur) ELSE ref

\* values := <-in on ref: the head leaves the queue.
Receive(ref) ==
    /\ inQ' = IF ref.k = "in" THEN [inQ EXCEPT ![ref.i] = Tail(@)] ELSE inQ
    /\ thrQ' = IF ref.k = "thr" THEN Tail(thrQ) ELSE thrQ
    /\ wq' = IF ref.k = "w" THEN [wq EXCEPT ![ref.i] = Tail(@)] ELSE wq

\* ------------------------------------------------------------- the throttle

\* The adapter ThrottledOut returns releases the head of its source queue to
\* its own queue while this second's budget lasts; the batch stays on the
\* source queue otherwise.
ThrottleRelease ==
    /\ started /\ maxUpdatesPerSecond > 0
    /\ thrTokens > 0
    /\ QueueOf(thrIn) # <<>> /\ Len(thrQ) < QueueSize
    /\ thrQ' = Append(thrQ, Head(QueueOf(thrIn)))
    /\ inQ' = [inQ EXCEPT ![thrIn.i] = Tail(@)]
    /\ thrTokens' = thrTokens - 1
    /\ thrReleased' = thrReleased + 1
    /\ UNCHANGED <<configVars, counterVars, exitClosed, started, inCur, thrIn,
                   thrSeconds, shVars, wVars, wq, stPc, cpVars, fsVars, left,
                   sent, histVars, sawExit, atSwap>>

\* A second ends: the adapter's budget is R again.
Second ==
    /\ started /\ maxUpdatesPerSecond > 0
    /\ thrTokens' = maxUpdatesPerSecond
    /\ thrSeconds' = IF thrSeconds < MaxSeconds THEN thrSeconds + 1 ELSE thrSeconds
    /\ UNCHANGED <<configVars, counterVars, exitClosed, started, inVars, thrQ,
                   thrIn, thrReleased, shVars, wVars, wq, stPc, cpVars, fsVars,
                   left, sent, histVars, sawExit, atSwap>>

\* ----------------------------------------------------------------- shuffler

\* case <-p.exit: break. The break leaves the select, not the for loop.
ShufflerExit ==
    /\ shPc = "select" /\ exitClosed
    /\ sawExit' = sawExit \cup {<<"shuffler", 0>>}
    /\ UNCHANGED <<configVars, counterVars, exitClosed, started, inVars, thrVars,
                   shVars, wVars, wq, stPc, cpVars, fsVars, left, sent, histVars,
                   atSwap>>

\* ShufflerChanged without the re-resolution: the old queue is kept.
ShufflerChangedStale ==
    /\ shPc = "select" /\ Changed(shIn)
    /\ UNCHANGED vars

\* case <-inChanged: in, inChanged = inChannel.Current()
ShufflerChanged ==
    /\ shPc = "select" /\ Changed(shIn)
    /\ shIn' = Reresolve(shIn)
    /\ UNCHANGED <<configVars, counterVars, exitClosed, started, inVars, thrVars,
                   shPc, shVal, shIdx, wVars, wq, stPc, cpVars, fsVars, left,
                   sent, histVars, sawExit, atSwap>>

\* ShufflerReceive with the index taken round robin from the batch's arrival
\* number instead of from the metric name.
ShufflerReceiveRoundRobin ==
    /\ shPc = "select" /\ QueueOf(shIn) # <<>>
    /\ shVal' = Head(QueueOf(shIn))
    /\ shIdx' = Head(QueueOf(shIn)).id % workersCount
    /\ shPc' = "send"
    /\ Receive(shIn)
    /\ UNCHANGED <<configVars, counterVars, exitClosed, started, inCur, thrIn,
                   thrTokens, thrSeconds, thrReleased, shIn, wVars, stPc, cpVars, fsVars, left, sent,
                   histVars, sawExit, atSwap>>

\* case values := <-in: index := crc32.ChecksumIEEE([]byte(values.Metric)) % workers
ShufflerReceive ==
    /\ shPc = "select" /\ QueueOf(shIn) # <<>>
    /\ shVal' = Head(QueueOf(shIn))
    /\ shIdx' = ShardIndex(Head(QueueOf(shIn)).metric, workersCount)
    /\ shPc' = "send"
    /\ Receive(shIn)
    /\ UNCHANGED <<configVars, counterVars, exitClosed, started, inCur, thrIn,
                   thrTokens, thrSeconds, thrReleased, shIn, wVars, stPc, cpVars, fsVars, left, sent,
                   histVars, sawExit, atSwap>>

\* ShufflerSend with the batch put at the head of the worker's channel.
ShufflerSendFront ==
    /\ shPc = "send" /\ Len(wq[shIdx]) < QueueSize
    /\ wq' = [wq EXCEPT ![shIdx] = <<shVal>> \o @]
    /\ shPc' = "select" /\ shVal' = None /\ shIdx' = 0
    /\ UNCHANGED <<configVars, counterVars, exitClosed, started, inVars, thrVars,
                   shIn, wVars, stPc, cpVars, fsVars, left, sent, histVars,
                   sawExit, atSwap>>

\* ShufflerSend to the channel after the one the index names.
ShufflerSendNeighbour ==
    /\ shPc = "send" /\ Len(wq[(shIdx + 1) % workersCount]) < QueueSize
    /\ wq' = [wq EXCEPT ![(shIdx + 1) % workersCount] = Append(@, shVal)]
    /\ shPc' = "select" /\ shVal' = None /\ shIdx' = 0
    /\ UNCHANGED <<configVars, counterVars, exitClosed, started, inVars, thrVars,
                   shIn, wVars, stPc, cpVars, fsVars, left, sent, histVars,
                   sawExit, atSwap>>

\* outChannels[index] <- values: waits while that worker's channel is full.
ShufflerSend ==
    /\ shPc = "send" /\ Len(wq[shIdx]) < QueueSize
    /\ wq' = [wq EXCEPT ![shIdx] = Append(@, shVal)]
    /\ shPc' = "select" /\ shVal' = None /\ shIdx' = 0
    /\ UNCHANGED <<configVars, counterVars, exitClosed, started, inVars, thrVars,
                   shIn, wVars, stPc, cpVars, fsVars, left, sent, histVars,
                   sawExit, atSwap>>

\* ------------------------------------------------------------------- worker

\* case <-p.exit: break. The break leaves the select, not the for loop.
WorkerExit(w) ==
    /\ wPc[w] = "select" /\ exitClosed
    /\ sawExit' = sawExit \cup {<<"worker", w>>}
    /\ UNCHANGED <<configVars, counterVars, exitClosed, started, inVars, thrVars,
                   shVars, wVars, wq, stPc, cpVars, fsVars, left, sent, histVars,
                   atSwap>>

\* case <-inChanged: in, inChanged = inChannel.Current()
WorkerChanged(w) ==
    /\ wPc[w] = "select" /\ Changed(wIn[w])
    /\ wIn' = [wIn EXCEPT ![w] = Reresolve(wIn[w])]
    /\ UNCHANGED <<configVars, counterVars, exitClosed, started, inVars, thrVars,
                   shVars, wPc, wVal, handle, panicked, wq, stPc, cpVars, fsVars,
                   left, sent, histVars, sawExit, atSwap>>

\* case values := <-in: p.store(values)
WorkerReceive(w) ==
    /\ wPc[w] = "select" /\ QueueOf(wIn[w]) # <<>>
    /\ LET values == Head(QueueOf(wIn[w]))
       IN  /\ wVal' = [wVal EXCEPT ![w] = values]
           /\ calls' = [calls EXCEPT ![values.metric] = Append(@, values.id)]
    /\ wPc' = [wPc EXCEPT ![w] = "open"]
    /\ Receive(wIn[w])
    /\ UNCHANGED <<configVars, counterVars, exitClosed, started, inCur, thrIn,
                   thrTokens, thrSeconds, thrReleased, shVars, wIn, handle, panicked, stPc, cpVars, fsVars,
                   left, sent, handles, updates, mkdirs, creates, incOps, incPts,
                   incCreated, handledPts, faults, sawExit, atSwap>>

\* -------------------------------------------------------------------- store

\* store returns to the worker's loop.
Return(w) ==
    /\ wPc' = [wPc EXCEPT ![w] = "select"]
    /\ wVal' = [wVal EXCEPT ![w] = None]

\* The call of store running in worker w obtained a handle on m's file.
Handle(w, m) ==
    /\ handle' = [handle EXCEPT ![w] = m]
    /\ handles' = [handles EXCEPT ![m] = Append(@, wVal[w].id)]
    /\ handledPts' = [handledPts EXCEPT ![m] = @ + wVal[w].n]
    /\ wPc' = [wPc EXCEPT ![w] = "points"]
    /\ UNCHANGED wVal

\* A call into the file system or the whisper library fails.
Fault(m, call) ==
    /\ left.fault > 0
    /\ left' = [left EXCEPT !.fault = @ - 1]
    /\ faults' = faults \cup {<<m, call>>}

\* StoreOpen with the increment of created placed after the creation block,
\* so that it also runs when Open succeeded.
StoreOpenCountsCreated(w) ==
    /\ wPc[w] = "open"
    /\ LET m == wVal[w].metric
       IN  \/ /\ m \in files
              /\ Handle(w, m)
              /\ created' = AddUint32(created, 1)
              /\ incCreated' = [incCreated EXCEPT ![m] = @ + 1]
              /\ UNCHANGED <<dirs, mkdirs, left, faults>>
           \/ /\ IF m \in files THEN Fault(m, "Open")
                 ELSE UNCHANGED <<left, faults>>
              /\ IF m \notin schemas \/ m \notin aggregation
                 THEN Return(w) /\ UNCHANGED <<dirs, mkdirs>>
                 ELSE /\ wPc' = [wPc EXCEPT ![w] = "create"]
                      /\ dirs' = dirs \cup {DirOf(m)}
                      /\ mkdirs' = [mkdirs EXCEPT ![m] = @ + 1]
                      /\ UNCHANGED wVal
              /\ UNCHANGED <<handle, handles, handledPts, created, incCreated>>
    /\ UNCHANGED <<configVars, updateOperations, commitedPoints, exitClosed,
                   started, inVars, thrVars, shVars, wIn, panicked, wq, stPc,
                   cpVars, files, sent, calls, updates, creates, incOps, incPts,
                   sawExit, atSwap>>

\* StoreOpen without the two policy checks.
StoreOpenNoPolicyCheck(w) ==
    /\ wPc[w] = "open"
    /\ LET m == wVal[w].metric
       IN  \/ /\ m \in files
              /\ Handle(w, m)
              /\ UNCHANGED <<dirs, mkdirs, left, faults>>
           \/ /\ IF m \in files THEN Fault(m, "Open")
                 ELSE UNCHANGED <<left, faults>>
              /\ wPc' = [wPc EXCEPT ![w] = "create"]
              /\ dirs' = dirs \cup {DirOf(m)}
              /\ mkdirs' = [mkdirs EXCEPT ![m] = @ + 1]
              /\ UNCHANGED <<wVal, handle, handles, handledPts>>
    /\ UNCHANGED <<configVars, counterVars, exitClosed, started, inVars, thrVars,
                   shVars, wIn, panicked, wq, stPc, cpVars, files, sent, calls,
                   updates, creates, incOps, incPts, incCreated, sawExit, atSwap>>

\* app.Whisper.Open(path). It fails when the file is missing, and may fail on
\* a file that is there. On failure: the schema and aggregation lookups, each
\* returning from store when it finds nothing, then os.MkdirAll, returning
\* when it fails.
StoreOpen(w) ==
    /\ wPc[w] = "open"
    /\ LET m == wVal[w].metric
       IN  \/ /\ m \in files                              \* Open succeeds
              /\ Handle(w, m)
              /\ UNCHANGED <<dirs, mkdirs, left, faults>>
           \/ /\ IF m \in files THEN Fault(m, "Open")     \* Open fails
                 ELSE UNCHANGED <<left, faults>>
              /\ IF m \notin schemas \/ m \notin aggregation
                 THEN Return(w) /\ UNCHANGED <<dirs, mkdirs>>
                 ELSE /\ wPc' = [wPc EXCEPT ![w] = "create"]
                      /\ dirs' = dirs \cup {DirOf(m)}
                      /\ mkdirs' = [mkdirs EXCEPT ![m] = @ + 1]
                      /\ UNCHANGED wVal
              /\ UNCHANGED <<handle, handles, handledPts>>
           \/ /\ m \notin files                           \* MkdirAll fails
              /\ m \in schemas /\ m \in aggregation
              /\ Fault(m, "MkdirAll")
              /\ Return(w)
              /\ UNCHANGED <<handle, handles, handledPts, dirs, mkdirs>>
    /\ UNCHANGED <<configVars, counterVars, exitClosed, started, inVars, thrVars,
                   shVars, wIn, panicked, wq, stPc, cpVars, files, sent, calls,
                   updates, creates, incOps, incPts, incCreated, sawExit, atSwap>>

\* StoreCreate incrementing created before the error of Create is checked.
StoreCreateCountsFailure(w) ==
    /\ wPc[w] = "create"
    /\ LET m == wVal[w].metric
       IN  /\ creates' = [creates EXCEPT ![m] = @ + 1]
           /\ created' = AddUint32(created, 1)
           /\ incCreated' = [incCreated EXCEPT ![m] = @ + 1]
           /\ \/ /\ files' = files \cup {m}
                 /\ Handle(w, m)
                 /\ UNCHANGED <<left, faults>>
              \/ /\ Fault(m, "Create")
                 /\ Return(w)
                 /\ UNCHANGED <<files, handle, handles, handledPts>>
    /\ UNCHANGED <<configVars, updateOperations, commitedPoints, exitClosed,
                   started, inVars, thrVars, shVars, wIn, panicked, wq, stPc,
                   cpVars, dirs, sent, calls, updates, mkdirs, incOps, incPts,
                   sawExit, atSwap>>

\* app.Whisper.Create(path, ...): on failure store returns; on success
\* atomic.AddUint32(&p.created, 1).
StoreCreate(w) ==
    /\ wPc[w] = "create"
    /\ LET m == wVal[w].metric
       IN  /\ creates' = [creates EXCEPT ![m] = @ + 1]
           /\ \/ /\ files' = files \cup {m}
                 /\ Handle(w, m)
                 /\ created' = AddUint32(created, 1)
                 /\ incCreated' = [incCreated EXCEPT ![m] = @ + 1]
                 /\ UNCHANGED <<left, faults>>
              \/ /\ Fault(m, "Create")
                 /\ Return(w)
                 /\ UNCHANGED <<files, handle, handles, handledPts, created,
                                incCreated>>
    /\ UNCHANGED <<configVars, updateOperations, commitedPoints, exitClosed,
                   started, inVars, thrVars, shVars, wIn, panicked, wq, stPc,
                   cpVars, dirs, sent, calls, updates, mkdirs, incOps, incPts,
                   sawExit, atSwap>>

\* StoreAddPoints counting the batch as one point.
StoreAddPointsOne(w) ==
    /\ wPc[w] = "points"
    /\ commitedPoints' = AddUint32(commitedPoints, 1)
    /\ incPts' = [incPts EXCEPT ![wVal[w].metric] = @ + 1]
    /\ wPc' = [wPc EXCEPT ![w] = "ops"]
    /\ UNCHANGED <<configVars, updateOperations, created, exitClosed, started,
                   inVars, thrVars, shVars, wIn, wVal, handle, panicked, wq, stPc,
                   cpVars, fsVars, left, sent, calls, handles, updates, mkdirs,
                   creates, incOps, incCreated, handledPts, faults, sawExit,
                   atSwap>>

\* atomic.AddUint32(&p.commitedPoints, uint32(len(values.Data)))
StoreAddPoints(w) ==
    /\ wPc[w] = "points"
    /\ commitedPoints' = AddUint32(commitedPoints, wVal[w].n)
    /\ incPts' = [incPts EXCEPT ![wVal[w].metric] = @ + wVal[w].n]
    /\ wPc' = [wPc EXCEPT ![w] = "ops"]
    /\ UNCHANGED <<configVars, updateOperations, created, exitClosed, started,
                   inVars, thrVars, shVars, wIn, wVal, handle, panicked, wq, stPc,
                   cpVars, fsVars, left, sent, calls, handles, updates, mkdirs,
                   creates, incOps, incCreated, handledPts, faults, sawExit,
                   atSwap>>

\* atomic.AddUint32(&p.updateOperations, 1)
StoreAddOps(w) ==
    /\ wPc[w] = "ops"
    /\ updateOperations' = AddUint32(updateOperations, 1)
    /\ incOps' = [incOps EXCEPT ![wVal[w].metric] = @ + 1]
    /\ wPc' = [wPc EXCEPT ![w] = "update"]
    /\ UNCHANGED <<configVars, commitedPoints, created, exitClosed, started,
                   inVars, thrVars, shVars, wIn, wVal, handle, panicked, wq, stPc,
                   cpVars, fsVars, left, sent, calls, handles, updates, mkdirs,
                   creates, incPts, incCreated, handledPts, faults, sawExit,
                   atSwap>>

\* w.UpdateMany(points): it returns, or it panics.
StoreUpdate(w) ==
    /\ wPc[w] = "update"
    /\ updates' = [updates EXCEPT ![wVal[w].metric] = Append(@, wVal[w].id)]
    /\ \/ UNCHANGED <<panicked, left, faults>>
       \/ /\ Fault(wVal[w].metric, "UpdateMany")
          /\ panicked' = [panicked EXCEPT ![w] = TRUE]
    /\ wPc' = [wPc EXCEPT ![w] = "deferred"]
    /\ UNCHANGED <<configVars, counterVars, exitClosed, started, inVars, thrVars,
                   shVars, wIn, wVal, handle, wq, stPc, cpVars, fsVars, sent,
                   calls, handles, mkdirs, creates, incOps, incPts, incCreated,
                   handledPts, sawExit, atSwap>>

\* StoreDeferred with w.Close() called after UpdateMany instead of deferred:
\* a panic of UpdateMany is recovered, and the handle is left open.
StoreDeferredCloseInline(w) ==
    /\ wPc[w] = "deferred"
    /\ handle' = [handle EXCEPT ![w] = IF panicked[w] THEN @ ELSE ""]
    /\ panicked' = [panicked EXCEPT ![w] = FALSE]
    /\ Return(w)
    /\ UNCHANGED <<configVars, counterVars, exitClosed, started, inVars, thrVars,
                   shVars, wIn, wq, stPc, cpVars, fsVars, left, sent, histVars,
                   sawExit, atSwap>>

\* StoreDeferred without the deferred recover: a panic of UpdateMany unwinds
\* through store and the worker, and the goroutine dies.
StoreDeferredNoRecover(w) ==
    /\ wPc[w] = "deferred"
    /\ handle' = [handle EXCEPT ![w] = ""]
    /\ IF panicked[w]
       THEN wPc' = [wPc EXCEPT ![w] = "dead"] /\ UNCHANGED <<wVal, panicked>>
       ELSE Return(w) /\ UNCHANGED panicked
    /\ UNCHANGED <<configVars, counterVars, exitClosed, started, inVars, thrVars,
                   shVars, wIn, wq, stPc, cpVars, fsVars, left, sent, histVars,
                   sawExit, atSwap>>

\* The deferred calls: recover() stops a panic of UpdateMany, then w.Close();
\* store returns normally.
StoreDeferred(w) ==
    /\ wPc[w] = "deferred"
    /\ panicked' = [panicked EXCEPT ![w] = FALSE]
    /\ handle' = [handle EXCEPT ![w] = ""]
    /\ Return(w)
    /\ UNCHANGED <<configVars, counterVars, exitClosed, started, inVars, thrVars,
                   shVars, wIn, wq, stPc, cpVars, fsVars, left, sent, histVars,
                   sawExit, atSwap>>

\* ---------------------------------------------------- statWorker, checkpoint

\* case <-p.exit: break. The break leaves the select, not the for loop.
StatExit ==
    /\ stPc = "select" /\ exitClosed
    /\ sawExit' = sawExit \cup {<<"statWorker", 0>>}
    /\ UNCHANGED <<configVars, counterVars, exitClosed, started, inVars, thrVars,
                   shVars, wVars, wq, stPc, cpVars, fsVars, left, sent, histVars,
                   atSwap>>

\* Tick calling doCheckpoint in the timer loop itself, without `go`: the
\* statWorker is inside the call until it returns.
TickInline ==
    /\ stPc = "select" /\ left.tick > 0
    /\ stPc' = "checkpoint"
    /\ cpPc' = [cpPc EXCEPT ![MaxTicks - left.tick + 1] = "loadOps"]
    /\ left' = [left EXCEPT !.tick = @ - 1]
    /\ UNCHANGED <<configVars, counterVars, exitClosed, started, inVars, thrVars,
                   shVars, wVars, wq, cpOps, cpPts, cpCreated, fsVars, sent,
                   histVars, sawExit, atSwap>>

\* case <-ticker.C: go p.doCheckpoint()
Tick ==
    /\ stPc = "select" /\ left.tick > 0
    /\ cpPc' = [cpPc EXCEPT ![MaxTicks - left.tick + 1] = "loadOps"]
    /\ left' = [left EXCEPT !.tick = @ - 1]
    /\ UNCHANGED <<configVars, counterVars, exitClosed, started, inVars, thrVars,
                   shVars, wVars, wq, stPc, cpOps, cpPts, cpCreated, fsVars, sent,
                   histVars, sawExit, atSwap>>

\* updateOperations := atomic.LoadUint32(&p.updateOperations)
CpLoadOps(k) ==
    /\ cpPc[k] = "loadOps"
    /\ cpOps' = [cpOps EXCEPT ![k] = updateOperations]
    /\ cpPc' = [cpPc EXCEPT ![k] = "loadPts"]
    /\ UNCHANGED <<configVars, counterVars, exitClosed, started, inVars, thrVars,
                   shVars, wVars, wq, stPc, cpPts, cpCreated, fsVars, left, sent,
                   histVars, sawExit, atSwap>>

\* commitedPoints := atomic.LoadUint32(&p.commitedPoints)
CpLoadPts(k) ==
    /\ cpPc[k] = "loadPts"
    /\ cpPts' = [cpPts EXCEPT ![k] = commitedPoints]
    /\ cpPc' = [cpPc EXCEPT ![k] = "subOps"]
    /\ UNCHANGED <<configVars, counterVars, exitClosed, started, inVars, thrVars,
                   shVars, wVars, wq, stPc, cpOps, cpCreated, fsVars, left, sent,
                   histVars, sawExit, atSwap>>

\* CpSubOps storing zero instead of subtracting the value loaded.
CpSubOpsReset(k) ==
    /\ cpPc[k] = "subOps"
    /\ updateOperations' = 0
    /\ cpPc' = [cpPc EXCEPT ![k] = "subPts"]
    /\ UNCHANGED <<configVars, commitedPoints, created, exitClosed, started,
                   inVars, thrVars, shVars, wVars, wq, stPc, cpOps, cpPts,
                   cpCreated, fsVars, left, sent, histVars, sawExit, atSwap>>

\* atomic.AddUint32(&p.updateOperations, -updateOperations)
CpSubOps(k) ==
    /\ cpPc[k] = "subOps"
    /\ updateOperations' = AddUint32(updateOperations, Neg(cpOps[k]))
    /\ cpPc' = [cpPc EXCEPT ![k] = "subPts"]
    /\ UNCHANGED <<configVars, commitedPoints, created, exitClosed, started,
                   inVars, thrVars, shVars, wVars, wq, stPc, cpOps, cpPts,
                   cpCreated, fsVars, left, sent, histVars, sawExit, atSwap>>

\* atomic.AddUint32(&p.commitedPoints, -commitedPoints)
CpSubPts(k) ==
    /\ cpPc[k] = "subPts"
    /\ commitedPoints' = AddUint32(commitedPoints, Neg(cpPts[k]))
    /\ cpPc' = [cpPc EXCEPT ![k] = "loadCreated"]
    /\ UNCHANGED <<configVars, updateOperations, created, exitClosed, started,
                   inVars, thrVars, shVars, wVars, wq, stPc, cpOps, cpPts,
                   cpCreated, fsVars, left, sent, histVars, sawExit, atSwap>>

\* created := atomic.LoadUint32(&p.created)
CpLoadCreated(k) ==
    /\ cpPc[k] = "loadCreated"
    /\ cpCreated' = [cpCreated EXCEPT ![k] = created]
    /\ cpPc' = [cpPc EXCEPT ![k] = "subCreated"]
    /\ UNCHANGED <<configVars, counterVars, exitClosed, started, inVars, thrVars,
                   shVars, wVars, wq, stPc, cpOps, cpPts, fsVars, left, sent,
                   histVars, sawExit, atSwap>>

\* atomic.AddUint32(&p.created, -created)
CpSubCreated(k) ==
    /\ cpPc[k] = "subCreated"
    /\ created' = AddUint32(created, Neg(cpCreated[k]))
    /\ cpPc' = [cpPc EXCEPT ![k] = "stat1"]
    /\ UNCHANGED <<configVars, updateOperations, commitedPoints, exitClosed,
                   started, inVars, thrVars, shVars, wVars, wq, stPc, cpOps,
                   cpPts, cpCreated, fsVars, left, sent, histVars, sawExit,
                   atSwap>>

\* float64(commitedPoints)/float64(updateOperations) when updateOperations > 0,
\* else 0.0, as numerator and denominator.
PointsPerUpdate(ops, pts) == IF ops > 0 THEN <<pts, ops>> ELSE <<0, 1>>

\* StatValue reading the counters when the point is sent instead of the
\* values doCheckpoint loaded.
StatValueLive(k, j) ==
    CASE j = 1 -> <<updateOperations, 1>>
      [] j = 2 -> <<commitedPoints, 1>>
      [] j = 3 -> PointsPerUpdate(updateOperations, commitedPoints)
      [] j = 4 -> <<created, 1>>

\* The value of the j-th point doCheckpoint sends, as numerator and
\* denominator: updateOperations, commitedPoints, pointsPerUpdate (0.0 when
\* updateOperations is 0) and created.
StatValue(k, j) ==
    CASE j = 1 -> <<cpOps[k], 1>>
      [] j = 2 -> <<cpPts[k], 1>>
      [] j = 3 -> PointsPerUpdate(cpOps[k], cpPts[k])
      [] j = 4 -> <<cpCreated[k], 1>>

StatPc(j) == CASE j = 1 -> "stat1" [] j = 2 -> "stat2" [] j = 3 -> "stat3"
               [] j = 4 -> "stat4" [] OTHER -> "done"

\* Stat: p.in.Chan() <- points.OnePoint(metric, value, now); it waits while
\* the queue is full.
Stat(k, j) ==
    /\ cpPc[k] = StatPc(j)
    /\ Len(inQ[inCur]) < QueueSize
    /\ LET m == StatMetric(StatNames[j])
       IN  /\ inQ' = [inQ EXCEPT ![inCur] =
                         Append(@, Batch(StatId(k, j), m, 1, StatValue(k, j)))]
           /\ sent' = [sent EXCEPT ![m] = Append(@, StatId(k, j))]
    /\ cpPc' = [cpPc EXCEPT ![k] = StatPc(j + 1)]
    /\ UNCHANGED <<configVars, counterVars, exitClosed, started, inCur, thrVars,
                   shVars, wVars, wq, stPc, cpOps, cpPts, cpCreated, fsVars, left,
                   histVars, sawExit, atSwap>>

\* --------------------------------------------------------------------- Next

Config == \E c \in 1..MaxWorkers : SetWorkers(c)
SubmitAny == \E m \in UserMetrics, n \in 1..MaxLen : Submit(m, n)
ShufflerLoop == ShufflerChanged \/ ShufflerReceive \/ ShufflerSend
WorkerLoop(w) == WorkerChanged(w) \/ WorkerReceive(w)
Store(w) == StoreOpen(w) \/ StoreCreate(w) \/ StoreAddPoints(w) \/ StoreAddOps(w)
               \/ StoreUpdate(w) \/ StoreDeferred(w)
DoCheckpoint(k) == CpLoadOps(k) \/ CpLoadPts(k) \/ CpSubOps(k) \/ CpSubPts(k)
                      \/ CpLoadCreated(k) \/ CpSubCreated(k)
                      \/ \E j \in 1..4 : Stat(k, j)

\* The engine while Stop is not called and the inbound queue is not swapped.
Next ==
    \/ Config
    \/ Start
    \/ SubmitAny
    \/ ShufflerReceive
    \/ ShufflerSend
    \/ \E w \in Workers : WorkerReceive(w) \/ Store(w)

Spec == Init /\ [][Next]_vars

\* The engine with one worker, the ticker firing and the doCheckpoint
\* goroutines it launches running beside store.
InitCheckpoint == NewWhisper(Metrics, Metrics, Budget(MaxBatches - 4, MaxTicks, 0, 0))

NextCheckpoint ==
    \/ Start
    \/ SubmitAny
    \/ \E w \in Workers : WorkerReceive(w) \/ Store(w)
    \/ Tick
    \/ \E k \in Checkpoints : DoCheckpoint(k)

SpecCheckpoint == InitCheckpoint /\ [][NextCheckpoint]_vars

\* A pool fed by the upstream producer and by one doCheckpoint goroutine.
InitEmit == NewWhisper(Metrics, Metrics, Budget(MaxBatches - 3, 1, 0, 0))

NextEmit ==
    \/ Config
    \/ Start
    \/ SubmitAny
    \/ ShufflerReceive
    \/ ShufflerSend
    \/ \E w \in Workers : WorkerReceive(w) \/ Store(w)
    \/ Tick
    \/ \E k \in Checkpoints : DoCheckpoint(k)

SpecEmit == InitEmit /\ [][NextEmit]_vars

\* Every goroutine that can take a step eventually takes one, and a select
\* with a case that stays ready eventually takes that case (Go picks among
\* the ready cases at random); calls into the whisper library return.
FairPipeline ==
    /\ WF_vars(ShufflerChanged) /\ WF_vars(ShufflerReceive) /\ WF_vars(ShufflerSend)
    /\ \A w \in Workers :
          /\ WF_vars(WorkerChanged(w)) /\ WF_vars(WorkerReceive(w))
          /\ WF_vars(Store(w))

\* The engine running (Stop is not called) while the inbound channel's queue
\* is swapped under the readers.
InitSwap == NewWhisper(Metrics, Metrics, Budget(MaxBatches - 2, 0, MaxSwaps, 0))

NextSwap ==
    \/ Config
    \/ Start
    \/ SubmitAny
    \/ Swap
    \/ ShufflerLoop
    \/ \E w \in Workers : WorkerLoop(w) \/ Store(w)

SpecSwap == InitSwap /\ [][NextSwap]_vars /\ WF_vars(Start) /\ FairPipeline

\* A pool in which the worker that owns metric "a" may stall inside store for
\* ever (a slow disk): every step of the shuffler and of the other workers is
\* fair, and so is the receive of the stalled worker; only its steps inside
\* store are not.
InitStall == NewWhisper(Metrics, Metrics, Budget(MaxBatches, 0, 0, 0))

Owner(metric) == ShardIndex(metric, workersCount)

NextStall ==
    \/ Config
    \/ Start
    \/ \E m \in UserMetrics : Submit(m, 1)
    \/ ShufflerReceive
    \/ ShufflerSend
    \/ \E w \in Workers : WorkerReceive(w) \/ Store(w)

SpecStall ==
    /\ InitStall /\ [][NextStall]_vars
    /\ WF_vars(ShufflerReceive) /\ WF_vars(ShufflerSend)
    /\ \A w \in Workers :
          /\ WF_vars(WorkerReceive(w))
          /\ WF_vars(w # Owner("a") /\ Store(w))

\* The solo worker fed only by the engine's own checkpoints, every goroutine
\* scheduled fairly: the statWorker ticks while the inbound queue may be full.
InitTimer == NewWhisper(Metrics, Metrics, Budget(0, MaxTicks, 0, 0))

NextTimer ==
    \/ Start
    \/ \E w \in Workers : WorkerReceive(w) \/ Store(w)
    \/ Tick
    \/ \E k \in Checkpoints : DoCheckpoint(k)

SpecTimer ==
    /\ InitTimer /\ [][NextTimer]_vars
    /\ \A w \in Workers : WF_vars(WorkerReceive(w)) /\ WF_vars(Store(w))
    /\ \A k \in Checkpoints : WF_vars(DoCheckpoint(k))

\* The engine behind the throttle when maxUpdatesPerSecond > 0, every
\* goroutine and the clock scheduled fairly.
InitThrottle == NewWhisper(Metrics, Metrics, Budget(MaxBatches - 2, 0, 0, 0))

NextThrottle ==
    \/ \E count \in 0..MaxWorkers : SetWorkers(count)
    \/ \E rate \in 0..MaxRate : SetMaxUpdatesPerSecond(rate)
    \/ Start
    \/ \E m \in UserMetrics : Submit(m, 1)
    \/ ThrottleRelease
    \/ Second
    \/ ShufflerReceive
    \/ ShufflerSend
    \/ \E w \in Workers : WorkerReceive(w) \/ Store(w)

SpecThrottle ==
    /\ InitThrottle /\ [][NextThrottle]_vars
    /\ WF_vars(ThrottleRelease) /\ WF_vars(Second)
    /\ WF_vars(ShufflerReceive) /\ WF_vars(ShufflerSend)
    /\ \A w \in Workers : WF_vars(WorkerReceive(w)) /\ WF_vars(Store(w))

\* The solo worker with checkpoints that do not overlap: the ticker fires
\* again only after the doCheckpoint it launched has returned.
InitSerial == NewWhisper(Metrics, Metrics, Budget(MaxBatches - 3, MaxTicks, 0, 0))

TickSerial == (\A k \in Checkpoints : cpPc[k] \in {"off", "done"}) /\ Tick

NextSerial ==
    \/ Start
    \/ SubmitAny
    \/ \E w \in Workers : WorkerReceive(w) \/ Store(w)
    \/ TickSerial
    \/ \E k \in Checkpoints : DoCheckpoint(k)

SpecSerial == InitSerial /\ [][NextSerial]_vars

\* The engine with Stop called at any moment: every loop has its exit case.
InitStop == NewWhisper(Metrics, Metrics, Budget(MaxBatches - 4, 1, 0, 0))

NextStop ==
    \/ Config
    \/ Start
    \/ Stop
    \/ SubmitAny
    \/ ShufflerExit
    \/ ShufflerReceive
    \/ ShufflerSend
    \/ \E w \in Workers : WorkerExit(w) \/ WorkerReceive(w) \/ Store(w)
    \/ StatExit
    \/ Tick
    \/ \E k \in Checkpoints : DoCheckpoint(k)

SpecStop == InitStop /\ [][NextStop]_vars

\* ------------------------------------------------------------------ claims

\* Worker w is inside a store call.
InStore(w) == wPc[w] \in {"open", "create", "points", "ops", "update", "deferred"}

\* C1: with more than one worker, no two workers are inside store for the same
\* metric at the same time, and no two hold a handle on the same file.
C1_OneWorkerPerMetric ==
    workersCount > 1 =>
        \A w1 \in Workers, w2 \in Workers :
            (w1 # w2 /\ InStore(w1) /\ InStore(w2)) =>
                /\ wVal[w1].metric # wVal[w2].metric
                /\ (handle[w1] # "" => handle[w1] # handle[w2])

\* Two workers of a pool are appending at the same time, each to its own file.
C1_Witness ==
    /\ workersCount > 1
    /\ wPc[0] = "update" /\ wPc[1] = "update"
    /\ handle[0] # "" /\ handle[1] # ""

IsPrefix(p, q) == Len(p) <= Len(q) /\ \A i \in 1..Len(p) : p[i] = q[i]

\* The elements of q that are in set S, in q's order.
RECURSIVE Restrict(_, _)
Restrict(q, S) ==
    IF q = <<>> THEN <<>>
    ELSE IF Head(q) \in S THEN <<Head(q)>> \o Restrict(Tail(q), S)
    ELSE Restrict(Tail(q), S)

Range(q) == {q[i] : i \in 1..Len(q)}

\* C2: for every metric, store is called with its batches in the order they
\* were sent on the inbound channel, and UpdateMany is called in that order
\* too, with one worker and with a pool.
C2_PerMetricOrder ==
    \A m \in Metrics :
        /\ IsPrefix(calls[m], sent[m])
        /\ updates[m] = Restrict(calls[m], Range(updates[m]))

\* In a pool, two batches of "a" sent around a batch of "d" have all been
\* appended.
C2_Witness ==
    /\ workersCount > 1
    /\ sent["a"] = <<1, 3>> /\ sent["d"] = <<2>>
    /\ updates["a"] = <<1, 3>> /\ updates["d"] = <<2>>

\* How many times id occurs in queue q.
Occurs(q, id) == Cardinality({i \in 1..Len(q) : q[i].id = id})

\* The ids a run can hand out.
AllIds == 1..(MaxBatches + 4 * MaxTicks)

\* How many copies of batch id wait in a queue or in the shuffler's hand.
Waiting(id) ==
    Cardinality({p \in Versions \X (1..QueueSize) :
                    p[2] <= Len(inQ[p[1]]) /\ inQ[p[1]][p[2]].id = id})
      + Cardinality({p \in Workers \X (1..QueueSize) :
                        p[2] <= Len(wq[p[1]]) /\ wq[p[1]][p[2]].id = id})
      + Occurs(thrQ, id)
      + (IF shVal.id = id THEN 1 ELSE 0)

\* How many times store has been called with batch id.
Stored(id) ==
    Cardinality({p \in Metrics \X AllIds :
                    p[2] <= Len(calls[p[1]]) /\ calls[p[1]][p[2]] = id})

\* C3: a batch in flight when the inbound queue is swapped is never
\* duplicated or dropped (it waits in one place or store was called with it
\* once), and while the engine runs store is eventually called with it.
C3_NoLossAcrossSwap ==
    /\ [](\A id \in atSwap : Waiting(id) + Stored(id) = 1)
    /\ <>[](\A id \in atSwap : Stored(id) = 1)

\* A pool's inbound queue was swapped with two batches in flight, and store
\* has been called with both.
C3_Witness ==
    /\ workersCount > 1 /\ inCur > 0
    /\ Cardinality(atSwap) = 2
    /\ \A id \in atSwap : Stored(id) = 1 /\ Waiting(id) = 0

\* Both policy lookups of store resolve metric m.
Resolved(m) == m \in schemas /\ m \in aggregation

\* The i-th call of store for metric m has returned.
Done(m, i) ==
    /\ i <= Len(calls[m])
    /\ \A w \in Workers : ~(InStore(w) /\ wVal[w].id = calls[m][i])

\* No call of Open, MkdirAll or Create for metric m has failed.
CreationUnfailed(m) ==
    faults \cap {<<m, "Open">>, <<m, "MkdirAll">>, <<m, "Create">>} = {}

\* C5 as stated: once the first call of store for a metric with both policies
\* and no file has returned, Create was called exactly once and created was
\* incremented exactly once for it, whatever came after.
C5_AsStated ==
    \A m \in Metrics :
        (Resolved(m) /\ Done(m, 1)) => (creates[m] = 1 /\ incCreated[m] = 1)

\* C5 amended: the same while no Open, MkdirAll or Create for the metric has
\* failed; and in every case created is incremented only by a Create call and
\* a store call makes at most one Create call.
C5_CreateOnce ==
    \A m \in Metrics :
        /\ incCreated[m] <= creates[m]
        /\ creates[m] <= mkdirs[m]
        /\ mkdirs[m] <= Len(calls[m])
        /\ (Resolved(m) /\ CreationUnfailed(m)) =>
              /\ creates[m] <= 1
              /\ incCreated[m] = creates[m]
              /\ Done(m, 1) => (creates[m] = 1 /\ incCreated[m] = 1)

\* In a pool, two calls of store for "a" have returned after one Create.
C5_Witness ==
    /\ workersCount > 1 /\ faults = {}
    /\ Done("a", 1) /\ Done("a", 2)
    /\ creates["a"] = 1 /\ incCreated["a"] = 1 /\ created = 1

\* C6: store for a metric with no file and a lookup that finds nothing makes
\* no directory, no Create call, obtains and leaves no handle, appends
\* nothing, and increments no counter.
C6_MissingPolicy ==
    \A m \in Metrics :
        ~Resolved(m) =>
            /\ mkdirs[m] = 0 /\ creates[m] = 0
            /\ handles[m] = <<>> /\ updates[m] = <<>>
            /\ m \notin files
            /\ \A w \in Workers : handle[w] # m
            /\ incOps[m] = 0 /\ incPts[m] = 0 /\ incCreated[m] = 0

\* A store call for "d", which has no rule, has returned and every counter
\* is still zero.
C6_Witness ==
    /\ ~Resolved("d") /\ Done("d", 1)
    /\ updateOperations = 0 /\ commitedPoints = 0 /\ created = 0

\* C7: a panic of UpdateMany never leaves the store call it happened in: no
\* worker goroutine dies, and a panic is pending only inside store, where the
\* deferred recover stops it.
C7_PanicContained ==
    \A w \in Workers :
        /\ wPc[w] # "dead"
        /\ panicked[w] => wPc[w] = "deferred"

\* The only worker's UpdateMany panicked on "a", and the same worker then
\* stored the next batch, of "d".
C7_Witness ==
    /\ workersCount = 1
    /\ faults = {<<"a", "UpdateMany">>}
    /\ updates["a"] = <<1>> /\ updates["d"] = <<2>>
    /\ Done("d", 1)

\* The store calls for m that hold a handle and have not yet incremented
\* updateOperations, and the points of those that have not yet incremented
\* commitedPoints.
PendingOps(m) ==
    Cardinality({w \in Workers : wPc[w] \in {"points", "ops"} /\ wVal[w].metric = m})
RECURSIVE PendingPtsOf(_, _)
PendingPtsOf(S, m) ==
    IF S = {} THEN 0
    ELSE LET w == CHOOSE x \in S : TRUE
         IN  (IF wPc[w] = "points" /\ wVal[w].metric = m THEN wVal[w].n ELSE 0)
               + PendingPtsOf(S \ {w}, m)
PendingPts(m) == PendingPtsOf(Workers, m)

RECURSIVE Total(_, _)
Total(f, S) ==
    IF S = {} THEN 0
    ELSE LET x == CHOOSE y \in S : TRUE IN f[x] + Total(f, S \ {x})

\* C8: per metric, updateOperations has been incremented once and
\* commitedPoints by the batch length for exactly the store calls that
\* obtained a handle (less those between the handle and the increment), and
\* the increments are done when UpdateMany is called; while no checkpoint has
\* run the counters hold exactly those increments.
C8_CountedBeforeAppend ==
    /\ \A m \in Metrics :
          /\ incOps[m] = Len(handles[m]) - PendingOps(m)
          /\ incPts[m] = handledPts[m] - PendingPts(m)
          /\ Range(updates[m]) \subseteq Range(handles[m])
          /\ Len(updates[m]) <= incOps[m]
    /\ (\A k \in Checkpoints : cpPc[k] = "off") =>
          /\ updateOperations = Total(incOps, Metrics) % Modulus
          /\ commitedPoints = Total(incPts, Metrics) % Modulus

\* UpdateMany panicked on a batch of two points of "a": the call has
\* returned and both counters hold it.
C8_Witness ==
    /\ faults = {<<"a", "UpdateMany">>}
    /\ Done("a", 1) /\ Len(calls["a"]) = 1
    /\ incOps["a"] = 1 /\ incPts["a"] = 2
    /\ Len(calls["d"]) = 0
    /\ updateOperations = 1 /\ commitedPoints = 2

\* C4: a worker, the shuffler or statWorker that has taken the exit case of
\* its select has left its loop.
C4_ExitLeavesLoop ==
    /\ \A w \in Workers : <<"worker", w>> \in sawExit => wPc[w] = "done"
    /\ <<"shuffler", 0>> \in sawExit => shPc = "done"
    /\ <<"statWorker", 0>> \in sawExit => stPc = "done"

\* C10: no counter ever exceeds the increments applied to it so far, which
\* is what an unsigned counter decremented below zero does.
C10_NeverNegative ==
    /\ updateOperations <= Total(incOps, Metrics)
    /\ commitedPoints <= Total(incPts, Metrics)
    /\ created <= Total(incCreated, Metrics)

\* C9: in a started pool, a batch of "d" that is on the inbound queue is
\* eventually stored by the idle worker that owns "d", however long the
\* worker that owns "a" stays inside store.
C9_OtherShardProgresses ==
    \A i \in 1..MaxBatches :
        (started /\ workersCount > 1 /\ Len(sent["d"]) >= i)
            ~> (Len(updates["d"]) >= i)

\* C11: once started the statWorker is always back at its select, whatever
\* the state of the inbound queue, and every doCheckpoint goroutine it
\* launched eventually gets all four of its points accepted.
C11_TimerNeverBlocks ==
    /\ [](started => stPc = "select")
    /\ \A k \in Checkpoints : (cpPc[k] # "off") ~> (cpPc[k] = "done")

\* The inbound queue is full and the first doCheckpoint waits in a Stat send,
\* yet the statWorker has ticked again and is back at its select.
C11_Witness ==
    /\ Len(inQ[inCur]) = QueueSize
    /\ cpPc[1] \in {"stat3", "stat4"}
    /\ cpPc[2] # "off"
    /\ stPc = "select"

\* The batches sent on the inbound channel so far.
SentIds == UNION {Range(sent[m]) : m \in Metrics}

\* The batches the shuffler or the solo worker has received.
Received ==
    {id \in SentIds :
        /\ \A v \in Versions : Occurs(inQ[v], id) = 0
        /\ Occurs(thrQ, id) = 0}

C13_ShardByChecksum ==
    /\ ChecksumOf("a") = <<59575, 48707>>
    /\ \A m \in Metrics : ShardIndex(m, 1) = 0
    /\ \A m \in Metrics, n \in 1..MaxWorkers : ShardIndex(m, n) \in 0..(n - 1)
    /\ workersCount > 1 =>
          /\ shPc = "send" => shIdx = ShardIndex(shVal.metric, workersCount)
          /\ \A w \in Workers :
                /\ \A i \in 1..Len(wq[w]) :
                      w = ShardIndex(wq[w][i].metric, workersCount)
                /\ InStore(w) => w = ShardIndex(wVal[w].metric, workersCount)
          /\ \A id \in SentIds : Waiting(id) + Stored(id) = 1

\* The shuffler of a pool of two has put a batch of "a" on the channel of
\* worker 1 and a batch of "d" on the channel of worker 0.
C13_Witness ==
    /\ workersCount = 2 /\ shPc = "select"
    /\ Len(wq[1]) > 0 /\ wq[1][1].metric = "a"
    /\ Len(wq[0]) > 0 /\ wq[0][1].metric = "d"

\* The workers that hold an open handle.
Holders == {w \in Workers : handle[w] # ""}

\* C14: a worker holds a handle only inside the store call that obtained it,
\* between obtaining it and the deferred Close, and the handle is on the
\* file of the batch being stored; so no handle is held between two batches
\* and the open handles are never more than the workers.
C14_HandlesEphemeral ==
    /\ \A w \in Workers :
          /\ handle[w] # "" =>
                /\ wPc[w] \in {"points", "ops", "update", "deferred"}
                /\ handle[w] = wVal[w].metric
          /\ wPc[w] \in {"points", "ops", "update", "deferred"} => handle[w] # ""
    /\ Holders \subseteq Launched
    /\ Cardinality(Holders) <= workersCount

\* UpdateMany panicked on "d" in a pool and its worker is back at its select
\* with no handle, while the other worker holds the handle on "a".
C14_Witness ==
    /\ workersCount = 2
    /\ faults = {<<"d", "UpdateMany">>}
    /\ wPc[0] = "select" /\ handle[0] = "" /\ Done("d", 1)
    /\ handle[1] = "a"

\* C15: nothing runs before Start. After it, with workersCount <= 1 only
\* worker 0 runs, reading the inbound channel (the throttled one when
\* maxUpdatesPerSecond > 0) and there is no shuffler; with workersCount = N > 1
\* workers 0..N-1 run, each reading its own private channel, and the shuffler
\* alone reads the inbound channel. The throttle has a source exactly when
\* maxUpdatesPerSecond > 0.
C15_StartWiring ==
    LET inbound == IF maxUpdatesPerSecond > 0 THEN ThrRef ELSE InRef(inCur)
    IN  /\ ~started =>
              /\ shPc = "off" /\ stPc = "off" /\ thrIn = NoRef
              /\ \A w \in Workers : wPc[w] = "off"
        /\ started =>
              /\ stPc # "off"
              /\ (thrIn # NoRef) <=> (maxUpdatesPerSecond > 0)
              /\ maxUpdatesPerSecond = 0 => (thrQ = <<>> /\ thrReleased = 0)
              /\ IF workersCount <= 1
                 THEN /\ shPc = "off" /\ shIn = NoRef
                      /\ \A w \in Workers : (wPc[w] # "off") <=> (w = 0)
                      /\ wIn[0] = inbound
                      /\ \A w \in Workers : wq[w] = <<>>
                 ELSE /\ shPc # "off" /\ shIn = inbound
                      /\ \A w \in Workers :
                            /\ (wPc[w] # "off") <=> (w < workersCount)
                            /\ w < workersCount => wIn[w] = WRef(w)
                            /\ w >= workersCount => wq[w] = <<>>

\* A pool of two behind a throttle of one batch a second: the shuffler reads
\* the throttled channel and worker 1 has been handed a batch of "a".
C15_Witness ==
    /\ started /\ workersCount = 2 /\ maxUpdatesPerSecond = 1
    /\ shIn = ThrRef /\ wIn[1] = WRef(1)
    /\ Len(calls["a"]) > 0

\* The batches that are on a channel, in the shuffler's hand or in a store
\* call.
Live ==
    UNION {Range(inQ[v]) : v \in Versions}
      \cup UNION {Range(wq[w]) : w \in Workers}
      \cup Range(thrQ)
      \cup (IF shPc = "send" THEN {shVal} ELSE {})
      \cup {wVal[w] : w \in {x \in Workers : InStore(x)}}

\* Two values given as numerator and denominator are the same number.
SameValue(x, y) == x[2] # 0 /\ y[2] # 0 /\ x[1] * y[2] = y[1] * x[2]

\* C16: the j-th point of checkpoint k is one point of the j-th persister
\* metric carrying what that checkpoint loaded: updateOperations,
\* commitedPoints, their quotient (0 when updateOperations is 0; 40 over 4
\* is 10) and created; and every batch of a persister metric on the inbound
\* stream is such a point, every other batch coming from the producer.
C16_CheckpointEmitsSnapshot ==
    /\ SameValue(PointsPerUpdate(4, 40), <<10, 1>>)
    /\ \A pts \in 0..(Modulus - 1) : PointsPerUpdate(0, pts) = <<0, 1>>
    /\ \A b \in Live :
          /\ b.val[2] # 0
          /\ b.metric \in StatMetrics <=> b.id > MaxBatches
          /\ b.id > MaxBatches =>
                \E k \in Checkpoints, j \in 1..4 :
                    /\ b.id = StatId(k, j)
                    /\ cpPc[k] \in {StatPc(i) : i \in (j + 1)..5}
                    /\ b.metric = StatMetric(StatNames[j])
                    /\ b.n = 1
                    /\ j = 1 => b.val = <<cpOps[k], 1>>
                    /\ j = 2 => b.val = <<cpPts[k], 1>>
                    /\ j = 3 /\ cpOps[k] = 0 => b.val = <<0, 1>>
                    /\ j = 3 /\ cpOps[k] > 0 =>
                          SameValue(b.val, <<cpPts[k], cpOps[k]>>)
                    /\ j = 4 => b.val = <<cpCreated[k], 1>>
    /\ \A m \in Metrics : \A i \in 1..Len(sent[m]) :
          m \in StatMetrics <=> sent[m][i] > MaxBatches

\* A checkpoint that loaded one update of two points has its quotient, 2, in
\* a store call, after more points were committed.
C16_Witness ==
    \E k \in Checkpoints, w \in Workers :
        /\ cpOps[k] = 1 /\ cpPts[k] = 2
        /\ commitedPoints > 0
        /\ InStore(w) /\ wVal[w].id = StatId(k, 3)
        /\ wVal[w].val = <<2, 1>>

\* The failures of MkdirAll and Create for metric m.
CreationFaults(m) == {<<m, "MkdirAll">>, <<m, "Create">>}

\* The store calls for m that have not yet got past Open and Create.
BeforeHandle(m) ==
    Cardinality({w \in Workers : wPc[w] \in {"open", "create"} /\ wVal[w].metric = m})

\* C17: the step in which MkdirAll or Create fails changes no counter, no
\* file and no append history, and takes the worker back to its select with
\* no handle; and while creation failures of a metric are the only failures,
\* every other store call for it gets a handle, the file being created once.
C17_CreationFailureDropped ==
    /\ [][\A m \in Metrics :
            (faults' # faults /\ faults' \ faults \subseteq CreationFaults(m)) =>
                /\ UNCHANGED <<counterVars, files, handle, handles, updates,
                               incOps, incPts, incCreated>>
                /\ \E w \in Workers :
                      /\ wPc[w] \in {"open", "create"} /\ wVal[w].metric = m
                      /\ wPc'[w] = "select" /\ handle'[w] = ""]_vars
    /\ [](\A m \in Metrics :
            (Resolved(m) /\ faults # {} /\ faults \subseteq CreationFaults(m)) =>
                /\ Len(calls[m]) =
                      Len(handles[m]) + (MaxFaults - left.fault) + BeforeHandle(m)
                /\ incCreated[m] = (IF m \in files THEN 1 ELSE 0))

\* Create failed for the first batch of "a"; the second batch created the
\* file and was appended, and created is 1.
C17_Witness ==
    /\ faults = {<<"a", "Create">>}
    /\ Len(calls["a"]) = 2 /\ Done("a", 2)
    /\ creates["a"] = 2 /\ created = 1
    /\ handles["a"] = <<calls["a"][2]>>
    /\ updates["a"] = <<calls["a"][2]>>

\* C18: a worker that has taken the exit case of its select receives no
\* further batch (it starts no further store call), and a statWorker that
\* has taken it launches no further doCheckpoint.
C18_NoWorkAfterExit ==
    [][/\ \A w \in Workers :
             (<<"worker", w>> \in sawExit /\ wPc[w] = "select") => wPc'[w] = "select"
       /\ <<"statWorker", 0>> \in sawExit =>
             \A k \in Checkpoints : cpPc[k] = "off" => cpPc'[k] = "off"]_vars

\* The sum of the values of local over the checkpoints whose position is in
\* at.
RECURSIVE Reported(_, _, _)
Reported(local, at, K) ==
    IF K = {} THEN 0
    ELSE LET k == CHOOSE x \in K : TRUE
         IN  (IF cpPc[k] \in at THEN local[k] ELSE 0) + Reported(local, at, K \ {k})

AfterSubOps == {"subPts", "loadCreated", "subCreated", "stat1", "stat2", "stat3",
                "stat4", "done"}
AfterSubPts == AfterSubOps \ {"subPts"}
AfterSubCreated == {"stat1", "stat2", "stat3", "stat4", "done"}

\* C19: with checkpoints that do not overlap, for each counter the values
\* the checkpoints loaded and subtracted plus the counter's value are the
\* increments applied so far.
C19_NoIncrementLost ==
    /\ Reported(cpOps, AfterSubOps, Checkpoints) + updateOperations
          = Total(incOps, Metrics)
    /\ Reported(cpPts, AfterSubPts, Checkpoints) + commitedPoints
          = Total(incPts, Metrics)
    /\ Reported(cpCreated, AfterSubCreated, Checkpoints) + created
          = Total(incCreated, Metrics)

\* An increment of updateOperations landed between the load and the
\* subtraction of the first checkpoint, and is still in the counter.
C19_Witness ==
    /\ cpOps[1] = 1 /\ cpPc[1] = "subPts"
    /\ updateOperations = 1
    /\ Total(incOps, Metrics) = 2

\* C20: a checkpoint that has loaded both counters and reports
\* updateOperations = 0 reports commitedPoints = 0, the points reported
\* being those of the batches whose update is reported.
C20_SnapshotConsistent ==
    \A k \in Checkpoints :
        (cpPc[k] \notin {"off", "loadOps", "loadPts"} /\ cpOps[k] = 0) => cpPts[k] = 0

====
